---- MODULE Spec2Model ----
(***************************************************************************)
(* A model of DailyRead's data master (daily_read/ngi_data.py): the git    *)
(* backed data directory, the source adapters, and the fetch / save /      *)
(* stage / commit operations of ProjectDataMaster.                         *)
(*                                                                         *)
(* Strings that the code parses (file names, portal ids) are sequences of  *)
(* their dot separated pieces: "P1.json" is <<"P1", "json">>, ".empty" is  *)
(* <<"", "empty">>.  A relative path is the sequence of its components:    *)
(* "NGIS/2023/P1.json" is <<<<"NGIS">>, <<"2023">>, <<"P1", "json">>>>.    *)
(* Python's None is the empty sequence where a payload is expected and the *)
(* string "None" where a plain string is expected.                         *)
(***************************************************************************)
EXTENDS Integers, Sequences, FiniteSets, TLC

VARIABLES
    config,      \* the Config object handed to ProjectDataMaster
    location,    \* what DATA_LOCATION is on disk: "missing", "dir" or "file"
    wt,          \* working tree: relative path -> file content
    index,       \* git index: relative path -> file content
    head,        \* tree of the HEAD commit: relative path -> file content
    commitLog,   \* messages of the commits of the history, oldest first
    master,      \* the ProjectDataMaster instance
    last,        \* the last call made on the data master and how it ended
    runStage,    \* how far the current run has come in fetch/save/commit
    stageCalls,  \* relative paths of the records staged since the last save
    freshSave,   \* the last save wrote only new files into a clean store
    runData,     \* the records in memory when the last complete run committed
    handler,     \* error_messages of the ErrorCollectorHandler on the root logger
    report,      \* how the last call of error_reporting ended
    made,        \* the last call of ProjectDataRecord(...) and its outcome
    portal       \* the OrderPortal: its fetched orders and what process_orders gave

dataVars == <<config, location, wt, index, head, commitLog, master, last,
              runStage, stageCalls, freshSave, runData>>

auxVars == <<handler, report, made, portal>>

vars == <<config, location, wt, index, head, commitLog, master, last,
          runStage, stageCalls, freshSave, runData, handler, report, made,
          portal>>

-----------------------------------------------------------------------------
(* Bounds *)

MaxCommits == 3
MaxRows == 2
MaxLog == 3
MaxReports == 2

-----------------------------------------------------------------------------
(* Values *)

None == <<>>
NoneStr == "None"
NoError == "ok"

PortalIds == {<<"P1">>, <<"P2">>}
Orderers == {"a@x.se", "b@x.se"}
Messages == {"Update"}

EmptyTree == [p \in {} |-> <<>>]

Put(f, p, c) == [q \in (DOMAIN f) \cup {p} |-> IF q = p THEN c ELSE f[q]]

-----------------------------------------------------------------------------
(* os.path on the representation above *)

EmptyName == <<"">>

\* os.path.split(path): (everything before the last component, the last one)
PathSplit(path) ==
    IF path = <<>> THEN <<<<>>, EmptyName>>
    ELSE <<SubSeq(path, 1, Len(path) - 1), path[Len(path)]>>

\* os.path.splitext(file_name)[0]: the name without its last extension; a
\* dot is no extension separator when only dots precede it
SplitExtRoot(file_name) ==
    IF /\ Len(file_name) >= 2
       /\ \E i \in 1..(Len(file_name) - 1) : file_name[i] # ""
    THEN SubSeq(file_name, 1, Len(file_name) - 1)
    ELSE file_name

\* the file name with its extension
portal_id_from_path_KeepExt(path) == PathSplit(path)[2]

\* ProjectDataRecord.portal_id_from_path
portal_id_from_path(path) == SplitExtRoot(PathSplit(path)[2])

-----------------------------------------------------------------------------
(* ProjectDataRecord *)

\* a payload (row.value of the status database view) is a mapping; the
\* orderer key may be missing
Payload(portal_id, orderer) ==
    IF orderer = NoneStr
    THEN [portal_id |-> portal_id]
    ELSE [portal_id |-> portal_id, orderer |-> orderer]

Payloads == { Payload(i, o) : i \in PortalIds, o \in Orderers \cup {NoneStr} }

\* `data` is None or <<payload>>
RecordInitRaises(data) == data # None /\ "orderer" \notin DOMAIN data[1]

\* the orderer is never taken from the payload
ProjectDataRecord_NoOrderer(relative_path, data) ==
    LET node_year == PathSplit(relative_path)[1]
        file_name == PathSplit(relative_path)[2]
    IN  [ ngi_node         |-> PathSplit(node_year)[1],
          year             |-> PathSplit(node_year)[2],
          file_name        |-> file_name,
          relative_path    |-> relative_path,
          relative_dirpath |-> node_year,
          project_id       |-> SplitExtRoot(file_name),
          report_iuid      |-> NoneStr,
          orderer          |-> NoneStr,
          data             |-> data ]

ProjectDataRecord(relative_path, data) ==
    LET node_year == PathSplit(relative_path)[1]
        file_name == PathSplit(relative_path)[2]
        node      == PathSplit(node_year)[1]
        year      == PathSplit(node_year)[2]
    IN  [ ngi_node         |-> node,
          year             |-> year,
          file_name        |-> file_name,
          relative_path    |-> relative_path,
          relative_dirpath |-> node_year,
          project_id       |-> SplitExtRoot(file_name),
          report_iuid      |-> NoneStr,
          orderer          |-> IF data # None THEN data[1].orderer ELSE NoneStr,
          data             |-> data ]

-----------------------------------------------------------------------------
(* Source adapters *)

Stockholm == "NGI Stockholm"
SNPSEQ == "SNP&SEQ"
UGC == "Uppsala Genome Center"

Dirname(source) ==
    CASE source = Stockholm -> "NGIS"
      [] source = SNPSEQ    -> "SNPSEQ"
      [] source = UGC       -> "UGC"

OrderYear == "2023"

\* f"{self.dirname}/{order_year}/{portal_id}.json"
StockholmPath(portal_id) ==
    <<<<Dirname(Stockholm)>>, <<OrderYear>>, portal_id \o <<"json">>>>

\* In-memory mappings (portal id -> record) are functions
EmptyData == [i \in {} |-> <<>>]

\* dict.update(other)
DictUpdate(d, other) ==
    [k \in (DOMAIN d) \cup (DOMAIN other) |->
        IF k \in DOMAIN other THEN other[k] ELSE d[k]]

\* The loop of StockholmProjectData.get_data over the rows of the view.
\* A result is [raised, isNone, value]: the exception raised (or NoError),
\* whether the value returned is None, and the mapping returned otherwise.
RECURSIVE StockholmRows(_, _)
StockholmRows(rows, acc) ==
    IF rows = <<>> THEN [raised |-> NoError, isNone |-> FALSE, value |-> acc]
    ELSE IF RecordInitRaises(<<Head(rows)>>)
         THEN [raised |-> "ValueError", isNone |-> TRUE, value |-> EmptyData]
         ELSE StockholmRows(Tail(rows),
                  Put(acc, Head(rows).portal_id,
                      ProjectDataRecord(StockholmPath(Head(rows).portal_id),
                                        <<Head(rows)>>)))

\* What the status database answers: a failure, or the rows of the view,
\* one row per project
RowSeqs ==
    { r \in UNION { [1..n -> Payloads] : n \in 0..MaxRows } :
        \A i, j \in DOMAIN r : i # j => r[i].portal_id # r[j].portal_id }

Upstream ==
    { [fails |-> FALSE, rows |-> r] : r \in RowSeqs }
        \cup { [fails |-> TRUE, rows |-> <<>>] }

\* StockholmProjectData.get_data()
StockholmGetData(upstream) ==
    IF upstream.fails
    THEN [raised |-> "ConnectionError", isNone |-> TRUE, value |-> EmptyData]
    ELSE StockholmRows(upstream.rows, EmptyData)

\* SNPSEQProjectData.get_data() and UGCProjectData.get_data(): the body is
\* `pass`, so the call returns None
StubGetData == [raised |-> NoError, isNone |-> TRUE, value |-> EmptyData]

\* source.get_data()
SourceGetData(source, upstream) ==
    IF source = Stockholm THEN StockholmGetData(upstream) ELSE StubGetData

-----------------------------------------------------------------------------
(* The data repository (GitPython on the data directory) *)

AllPaths(w, i, h) == (DOMAIN w) \cup (DOMAIN i) \cup (DOMAIN h)

\* index.diff("HEAD"): the paths whose index entry differs from HEAD's
IndexDiffHead(i, h) ==
    { p \in (DOMAIN i) \cup (DOMAIN h) :
        \/ p \notin DOMAIN i
        \/ p \notin DOMAIN h
        \/ i[p] # h[p] }

\* index.diff(None): the index entries whose file in the working tree is
\* modified or deleted
IndexDiffWorkingTree(i, w) ==
    { p \in DOMAIN i : p \notin DOMAIN w \/ w[p] # i[p] }

\* repo.untracked_files
UntrackedFiles(i, w) == (DOMAIN w) \ (DOMAIN i)

\* repo.is_dirty(): index=True, working_tree=True, untracked_files=False
IsDirty(w, i, h) ==
    IndexDiffHead(i, h) # {} \/ IndexDiffWorkingTree(i, w) # {}

\* ProjectDataMaster.staged_files / modified_not_staged_files
staged_files == IndexDiffHead(index, head)
modified_not_staged_files == IndexDiffWorkingTree(index, wt)
untracked_files == UntrackedFiles(index, wt)

\* untracked files left out of the check
any_modified_or_new_NoUntracked ==
    IsDirty(wt, index, head) \/ staged_files # {}

\* ProjectDataMaster.any_modified_or_new
any_modified_or_new ==
    \/ IsDirty(wt, index, head)
    \/ untracked_files # {}
    \/ staged_files # {}

\* The set `projects` of get_modified_or_new_projects
ModifiedOrNewPaths ==
    IF ~any_modified_or_new THEN {}
    ELSE staged_files \cup modified_not_staged_files \cup untracked_files

\* The body of the loop of get_modified_or_new_projects
ResolveProject(project_path) ==
    IF portal_id_from_path(project_path) \in DOMAIN master.data
    THEN master.data[portal_id_from_path(project_path)]
    ELSE ProjectDataRecord(project_path, None)

\* get_modified_or_new_projects: the list holds one entry per path of
\* `projects`, in the set's iteration order; it is kept here as the mapping
\* from each path to the entry appended for it
get_modified_or_new_projects ==
    [p \in ModifiedOrNewPaths |-> ResolveProject(p)]

\* a loop that leaves out the records without orderer
RECURSIVE OrderersLoop_SkipNone(_, _)
OrderersLoop_SkipNone(projects_list, orderers) ==
    IF projects_list = <<>> THEN orderers
    ELSE OrderersLoop_SkipNone(Tail(projects_list),
             IF Head(projects_list).orderer = NoneStr THEN orderers
             ELSE orderers \cup {Head(projects_list).orderer})

\* the loop of find_unique_orderers over projects_list: orderers.add(...)
RECURSIVE OrderersLoop(_, _)
OrderersLoop(projects_list, orderers) ==
    IF projects_list = <<>> THEN orderers
    ELSE OrderersLoop(Tail(projects_list),
                      orderers \cup {Head(projects_list).orderer})

\* find_unique_orderers
find_unique_orderers ==
    { get_modified_or_new_projects[p].orderer : p \in ModifiedOrNewPaths }

-----------------------------------------------------------------------------
(* File contents *)

\* open(path, "a").close() on a file that does not exist: an empty file
EmptyFile == <<>>

\* json.dumps(project_record.data): the text of the payload
JsonDumps(data) == <<"json", data[1]>>

PlaceholderPath == <<<<"", "empty">>>>
FirstCommitMessage == "Empty file as a first commit"

-----------------------------------------------------------------------------
(* The data directory before the first run *)

P1Path == StockholmPath(<<"P1">>)
OtherNodeP1Path == <<<<Dirname(SNPSEQ)>>, <<OrderYear>>, <<"P1", "json">>>>
RootP1Path == <<<<"P1", "json">>>>

OldP1 == JsonDumps(<<Payload(<<"P1">>, "a@x.se")>>)
EditedP1 == JsonDumps(<<Payload(<<"P1">>, "b@x.se")>>)

Bootstrapped == Put(EmptyTree, PlaceholderPath, EmptyFile)
WithP1 == Put(Bootstrapped, P1Path, OldP1)

Directory(l, w, i, h, c) ==
    [location |-> l, wt |-> w, index |-> i, head |-> h, commitLog |-> c]

InitialDirs ==
    { \* no such path, an empty directory, a file at the path
      Directory("missing", EmptyTree, EmptyTree, EmptyTree, <<>>),
      Directory("dir", EmptyTree, EmptyTree, EmptyTree, <<>>),
      Directory("file", EmptyTree, EmptyTree, EmptyTree, <<>>),
      \* no commit yet, an untracked file
      Directory("dir", Put(EmptyTree, P1Path, OldP1), EmptyTree, EmptyTree, <<>>),
      \* no commit yet, a staged file
      Directory("dir", Put(EmptyTree, P1Path, OldP1),
                Put(EmptyTree, P1Path, OldP1), EmptyTree, <<>>),
      \* a store left clean by earlier runs
      Directory("dir", Bootstrapped, Bootstrapped, Bootstrapped,
                <<FirstCommitMessage>>),
      Directory("dir", WithP1, WithP1, WithP1, <<FirstCommitMessage, "Update">>),
      \* a store with a staged, an unstaged and an untracked change
      Directory("dir",
                Put(Put(Put(WithP1, P1Path, EditedP1), OtherNodeP1Path, OldP1),
                    RootP1Path, OldP1),
                Put(WithP1, OtherNodeP1Path, OldP1),
                WithP1,
                <<FirstCommitMessage, "Update">>) }

Configs ==
    [ DATA_LOCATION_isabs : BOOLEAN,
      FETCH_FROM_NGIS     : BOOLEAN,
      FETCH_FROM_SNPSEQ   : BOOLEAN,
      FETCH_FROM_UGC      : BOOLEAN ]

NoMaster ==
    [ alive |-> FALSE, sources |-> <<>>, data_fetched |-> FALSE,
      data_saved |-> FALSE, data |-> EmptyData ]

\* a call on the data master: the operation, the exception it raised (or
\* NoError) and, for get_data, the adapters it invoked, in call order, and
\* the adapter named by "Failed to fetch data from ..."
Call(op, err, invoked, failed) ==
    [op |-> op, err |-> err, invoked |-> invoked, failed |-> failed]

\* error_reporting not called, no record constructed
NoReport == [called |-> FALSE, raised |-> NoError, summary |-> <<>>]
NoRecordMade ==
    [called |-> FALSE, relative_path |-> <<>>, data |-> None,
     raised |-> NoError, result |-> <<>>]

\* an OrderPortal that has fetched nothing yet
NewPortal ==
    [stage |-> "new", orderer |-> NoneStr, all_orders |-> <<>>,
     priority_ranking |-> <<>>, raised |-> NoError, named |-> <<>>,
     result |-> <<>>]

AuxIdle ==
    /\ handler = <<>>
    /\ report = NoReport
    /\ made = NoRecordMade
    /\ portal = NewPortal

Init ==
    /\ AuxIdle
    /\ config \in Configs
    /\ \E d \in InitialDirs :
          /\ location = d.location
          /\ wt = d.wt
          /\ index = d.index
          /\ head = d.head
          /\ commitLog = d.commitLog
    /\ master = NoMaster
    /\ last = Call("none", NoError, <<>>, NoneStr)
    /\ runStage = "idle"
    /\ stageCalls = {}
    /\ freshSave = FALSE
    /\ runData = EmptyData

-----------------------------------------------------------------------------
(* ProjectDataMaster.__init__ *)

\* the `sources` list, in the order of the three `if`s
Sources(c) ==
    (IF c.FETCH_FROM_NGIS THEN <<Stockholm>> ELSE <<>>)
        \o (IF c.FETCH_FROM_SNPSEQ THEN <<SNPSEQ>> ELSE <<>>)
        \o (IF c.FETCH_FROM_UGC THEN <<UGC>> ELSE <<>>)

\* the check on a history without commits looks at is_dirty() alone
SetupError_IgnoresUntracked ==
    IF ~config.DATA_LOCATION_isabs THEN "ValueError: not an absolute path"
    ELSE IF location = "file" THEN "ValueError: not a directory"
    ELSE IF commitLog = <<>> /\ IsDirty(wt, index, head)
         THEN "ValueError: no commits but has modifications"
    ELSE NoError

\* modifications are refused whether or not the history has a commit
SetupError_AnyPending ==
    IF ~config.DATA_LOCATION_isabs THEN "ValueError: not an absolute path"
    ELSE IF location = "file" THEN "ValueError: not a directory"
    ELSE IF IsDirty(wt, index, head) \/ UntrackedFiles(index, wt) # {}
         THEN "ValueError: no commits but has modifications"
    ELSE NoError

\* __setup_data_repo: the exception it raises on this directory, or NoError
SetupError ==
    IF ~config.DATA_LOCATION_isabs THEN "ValueError: not an absolute path"
    ELSE IF location = "file" THEN "ValueError: not a directory"
    ELSE IF /\ commitLog = <<>>
            /\ (IsDirty(wt, index, head) \/ UntrackedFiles(index, wt) # {})
         THEN "ValueError: no commits but has modifications"
    ELSE NoError

\* the working tree after open(new_file_path, "a").close()
TouchPlaceholder(w) ==
    IF PlaceholderPath \in DOMAIN w THEN w
    ELSE Put(w, PlaceholderPath, EmptyFile)

\* the placeholder is created but never added to the index
BootstrapIndex_NoAdd(i, w) == i

\* data_repo.index.add([new_file_path])
BootstrapIndex(i, w) == Put(i, PlaceholderPath, w[PlaceholderPath])

\* statusUp: whether StatusDBSession(config) reaches the status database
Construct(statusUp) ==
    LET err == IF config.FETCH_FROM_NGIS /\ ~statusUp THEN "ConnectionError"
               ELSE SetupError
        reachesInit == ~(config.FETCH_FROM_NGIS /\ ~statusUp)
                           /\ config.DATA_LOCATION_isabs /\ location # "file"
        bootstrap == err = NoError /\ commitLog = <<>>
    IN  /\ location' = IF reachesInit THEN "dir" ELSE location
        /\ wt' = IF bootstrap THEN TouchPlaceholder(wt) ELSE wt
        /\ index' = IF bootstrap THEN BootstrapIndex(index, wt') ELSE index
        /\ head' = IF bootstrap THEN index' ELSE head
        /\ commitLog' = IF bootstrap THEN <<FirstCommitMessage>> ELSE commitLog
        /\ master' = IF err = NoError
                     THEN [ alive |-> TRUE, sources |-> Sources(config),
                            data_fetched |-> FALSE, data_saved |-> FALSE,
                            data |-> EmptyData ]
                     ELSE NoMaster
        /\ last' = Call("init", err, <<>>, NoneStr)
        /\ runStage' = IF err = NoError /\ runStage = "committed"
                       THEN "committed" ELSE "idle"
        /\ stageCalls' = {}
        /\ freshSave' = (freshSave /\ runStage' = "committed")
        /\ runData' = IF runStage' = "committed" THEN runData ELSE EmptyData
        /\ UNCHANGED config

-----------------------------------------------------------------------------
(* ProjectDataMaster.get_data *)

\* The loop over self.sources: [raised, data, invoked, failed], where
\* `invoked` lists the adapters whose get_data was called, in call order,
\* and `failed` is the adapter in whose try block the exception was raised
Raised(err, data, invoked, failed) ==
    [raised |-> err, data |-> data, invoked |-> invoked, failed |-> failed]

\* a loop that goes on to the next adapter after a failure and raises at
\* the end
RECURSIVE GetDataLoop_Continue(_, _, _, _)
GetDataLoop_Continue(sources, data, invoked, upstream) ==
    IF sources = <<>>
    THEN Raised(NoError, data, invoked, NoneStr)
    ELSE LET r == SourceGetData(Head(sources), upstream)
             called == Append(invoked, Head(sources))
             rest == GetDataLoop_Continue(Tail(sources), data, called, upstream)
         IN  IF r.raised # NoError
             THEN Raised(r.raised, rest.data, rest.invoked, Head(sources))
             ELSE IF r.isNone
                  THEN Raised("TypeError", rest.data, rest.invoked,
                              Head(sources))
                  ELSE GetDataLoop_Continue(Tail(sources),
                           DictUpdate(data, r.value), called, upstream)

RECURSIVE GetDataLoop(_, _, _, _)
GetDataLoop(sources, data, invoked, upstream) ==
    IF sources = <<>>
    THEN Raised(NoError, data, invoked, NoneStr)
    ELSE LET r == SourceGetData(Head(sources), upstream)
             called == Append(invoked, Head(sources))
         IN  IF r.raised # NoError
             THEN Raised(r.raised, data, called, Head(sources))
             ELSE IF r.isNone
                  \* self.data.update(None)
                  THEN Raised("TypeError", data, called, Head(sources))
                  ELSE GetDataLoop(Tail(sources), DictUpdate(data, r.value),
                                   called, upstream)

GetData(upstream) ==
    LET r == GetDataLoop(master.sources, master.data, <<>>, upstream)
    IN  /\ master.alive
        /\ master' = [master EXCEPT
                        !.data = r.data,
                        !.data_fetched = IF r.raised = NoError THEN TRUE ELSE @]
        /\ last' = Call("get_data", r.raised, r.invoked, r.failed)
        /\ runStage' = IF r.raised # NoError THEN "idle"
                       ELSE IF runStage = "committed" /\ r.data = runData
                            THEN "refetched" ELSE "fetched"
        /\ stageCalls' = {}
        /\ freshSave' = FALSE
        /\ runData' = IF runStage' = "refetched" THEN runData ELSE EmptyData
        /\ UNCHANGED <<config, location, wt, index, head, commitLog>>

-----------------------------------------------------------------------------
(* ProjectDataMaster.save_data *)

\* the check on os.path.dirname(abs_path): os.path.join(data_location, "")
\* ends in a separator, which no dirname does
SaveRaises(project_record) == project_record.relative_dirpath = <<>>

\* the files after the loop over self.data.items()
WriteAll(w, data) ==
    [p \in (DOMAIN w) \cup { data[k].relative_path : k \in DOMAIN data } |->
        IF \E k \in DOMAIN data : data[k].relative_path = p
        THEN JsonDumps(data[CHOOSE k \in DOMAIN data :
                                    data[k].relative_path = p].data)
        ELSE w[p]]

\* the assertion left out
SaveAsserts_Never == FALSE

\* a save that also refuses to run over changes of a previous run
SaveAsserts_OrPending == ~master.data_fetched \/ any_modified_or_new

\* assert self._data_fetched
SaveAsserts == ~master.data_fetched

SaveData ==
    LET err == IF SaveAsserts THEN "AssertionError"
               ELSE IF \E k \in DOMAIN master.data : SaveRaises(master.data[k])
                    THEN "NameError"
                    ELSE NoError
    IN  /\ master.alive
        /\ wt' = IF err = NoError THEN WriteAll(wt, master.data) ELSE wt
        /\ master' = [master EXCEPT
                        !.data_saved = IF err = NoError THEN TRUE ELSE @]
        /\ last' = Call("save_data", err, <<>>, NoneStr)
        /\ runStage' = IF err # NoError THEN "idle"
                       ELSE IF runStage = "fetched" THEN "saved"
                       ELSE IF runStage = "refetched" THEN "resaved"
                       ELSE "idle"
        /\ stageCalls' = {}
        /\ freshSave' = /\ runStage' = "saved"
                        /\ ~any_modified_or_new
                        /\ \A k \in DOMAIN master.data :
                              master.data[k].relative_path \notin DOMAIN wt
        /\ runData' = IF runStage' = "resaved" THEN runData ELSE EmptyData
        /\ UNCHANGED <<config, location, index, head, commitLog>>

-----------------------------------------------------------------------------
(* ProjectDataMaster.stage_data_for_project, commit_staged_data *)

\* the path handed to index.add: it is taken relative to the working tree
StagePath(project_record) == <<project_record.file_name>>

\* the records a caller has at hand
KnownRecords ==
    { master.data[k] : k \in DOMAIN master.data }
        \cup { get_modified_or_new_projects[p] : p \in ModifiedOrNewPaths }

StageDataForProject(project_record) ==
    LET path == StagePath(project_record)
        err == IF path \in DOMAIN wt THEN NoError ELSE "FileNotFoundError"
    IN  /\ master.alive
        /\ index' = IF err = NoError THEN Put(index, path, wt[path]) ELSE index
        /\ last' = Call("stage_data_for_project", err, <<>>, NoneStr)
        /\ stageCalls' = stageCalls \cup {project_record.relative_path}
        /\ runStage' = IF runStage = "saved" THEN "saved" ELSE "idle"
        /\ freshSave' = (freshSave /\ runStage' = "saved")
        /\ runData' = EmptyData
        /\ UNCHANGED <<config, location, wt, head, commitLog, master>>

\* a commit that is refused when the index equals HEAD
CommitStagedData_FailsWhenEmpty(message) ==
    /\ master.alive
    /\ Len(commitLog) < MaxCommits
    /\ head' = index
    /\ commitLog' = IF staged_files = {} THEN commitLog
                    ELSE Append(commitLog, message)
    /\ last' = Call("commit_staged_data",
                    IF staged_files = {} THEN "GitCommandError" ELSE NoError,
                    <<>>, NoneStr)
    /\ runStage' = "idle"
    /\ stageCalls' = {}
    /\ freshSave' = FALSE
    /\ runData' = EmptyData
    /\ UNCHANGED <<config, location, wt, index, master>>

\* index.commit(message): a commit of the index as it is
CommitStagedData(message) ==
    /\ master.alive
    /\ Len(commitLog) < MaxCommits
    /\ head' = index
    /\ commitLog' = Append(commitLog, message)
    /\ last' = Call("commit_staged_data", NoError, <<>>, NoneStr)
    /\ runStage' = IF /\ runStage = "saved"
                      /\ \A p \in ModifiedOrNewPaths :
                            ResolveProject(p).relative_path \in stageCalls
                   THEN "committed" ELSE "idle"
    /\ stageCalls' = {}
    /\ freshSave' = (freshSave /\ runStage' = "committed")
    /\ runData' = IF runStage' = "committed" THEN master.data ELSE EmptyData
    /\ UNCHANGED <<config, location, wt, index, master>>

-----------------------------------------------------------------------------

Next ==
    \/ \E statusUp \in BOOLEAN : Construct(statusUp) /\ UNCHANGED auxVars
    \/ \E upstream \in Upstream : GetData(upstream) /\ UNCHANGED auxVars
    \/ SaveData /\ UNCHANGED auxVars
    \/ \E project_record \in KnownRecords :
          StageDataForProject(project_record) /\ UNCHANGED auxVars
    \/ \E message \in Messages : CommitStagedData(message) /\ UNCHANGED auxVars

Spec == Init /\ [][Next]_vars

-----------------------------------------------------------------------------
(* A data master after one fetch and save, for the operations below that do
   not change it *)

SavedP1 ==
    Put(EmptyData, <<"P1">>,
        ProjectDataRecord(P1Path, <<Payload(<<"P1">>, "a@x.se")>>))

DataIdle ==
    /\ config = [ DATA_LOCATION_isabs |-> TRUE, FETCH_FROM_NGIS |-> TRUE,
                  FETCH_FROM_SNPSEQ |-> FALSE, FETCH_FROM_UGC |-> FALSE ]
    /\ location = "dir"
    /\ wt = WithP1
    /\ index = Bootstrapped
    /\ head = Bootstrapped
    /\ commitLog = <<FirstCommitMessage>>
    /\ master = [ alive |-> TRUE, sources |-> <<Stockholm>>,
                  data_fetched |-> TRUE, data_saved |-> TRUE,
                  data |-> SavedP1 ]
    /\ last = Call("save_data", NoError, <<>>, NoneStr)
    /\ runStage = "saved"
    /\ stageCalls = {}
    /\ freshSave = TRUE
    /\ runData = EmptyData

-----------------------------------------------------------------------------
(* utils.ErrorCollectorHandler and utils.error_reporting *)

\* logging's level numbers
LevelNo == [DEBUG |-> 10, INFO |-> 20, WARNING |-> 30, ERROR |-> 40,
            CRITICAL |-> 50]
LevelNames == {"DEBUG", "INFO", "WARNING", "ERROR", "CRITICAL"}

\* logging.ERROR
ERROR == 40

\* record.msg is what the caller handed to the logging call: a string, or
\* as in log.exception(e) an exception object
StrMsg(text) == [isStr |-> TRUE, text |-> text]
ExcMsg(text) == [isStr |-> FALSE, text |-> text]

LogMsgs ==
    { StrMsg("Failed to fetch data from NGI Stockholm"),
      StrMsg("Test error message"),
      StrMsg("Warn message"),
      ExcMsg("ConnectionError") }

\* ErrorCollectorHandler.emit
Emit(levelname, msg) ==
    /\ Len(handler) < MaxLog
    /\ handler' = IF LevelNo[levelname] >= ERROR THEN Append(handler, msg)
                  ELSE handler
    /\ report' = NoReport
    /\ UNCHANGED <<dataVars, made, portal>>

\* handler.error_messages = []
ClearMessages ==
    /\ handler' = <<>>
    /\ report' = NoReport
    /\ UNCHANGED <<dataVars, made, portal>>

ReportHeader == "Errors logged in DailyRead during execution"

\* header + "\n" + "\n".join(messages): the lines of the text
SummaryLines(messages) ==
    <<ReportHeader>> \o [i \in DOMAIN messages |-> messages[i].text]

\* str.join raises TypeError on an item that is no string
JoinRaises(messages) == \E i \in DOMAIN messages : ~messages[i].isStr

\* error_reporting(log), with one ErrorCollectorHandler on the root logger
ErrorReporting ==
    /\ report' =
          IF handler = <<>>
          THEN [called |-> TRUE, raised |-> NoError, summary |-> <<>>]
          ELSE IF JoinRaises(handler)
               THEN [called |-> TRUE, raised |-> "TypeError", summary |-> <<>>]
               ELSE [called |-> TRUE, raised |-> "RuntimeError",
                     summary |-> SummaryLines(handler)]
    /\ UNCHANGED <<dataVars, handler, made, portal>>

InitIdle == DataIdle /\ AuxIdle

NextLog ==
    \/ \E levelname \in LevelNames, msg \in LogMsgs : Emit(levelname, msg)
    \/ ClearMessages
    \/ ErrorReporting

SpecLog == InitIdle /\ [][NextLog]_vars

-----------------------------------------------------------------------------
(* The order reconciler: OrderPortal.get_orders and process_orders *)

StatusLabels == {"Library QC finished", "All Raw data Delivered"}

\* the status-priority ranking of the configuration, highest rank first
PriorityRankings ==
    { <<"Library QC finished", "All Raw data Delivered">>,
      <<"All Raw data Delivered", "Library QC finished">> }

\* a report request: its status label, open or closed, and for a closed one
\* whether the closure falls inside the removal window
ReportRequests ==
    [label : StatusLabels, state : {"open"}, in_window : {FALSE}]
        \cup [label : StatusLabels, state : {"closed"}, in_window : BOOLEAN]

ReportLists == UNION { [1..n -> ReportRequests] : n \in 0..MaxReports }

Order(identifier, orderer, reports) ==
    [identifier |-> identifier, orderer |-> orderer, reports |-> reports]

\* what the order service may return for one orderer: orders with distinct
\* identifiers, in the service's order, with MaxReports report requests
\* at most between them
OrderLists(orderer) ==
    {<<>>}
        \cup { <<Order(i, orderer, r)>> : i \in PortalIds, r \in ReportLists }
        \cup { <<Order(ij[1], orderer, rq[1]), Order(ij[2], orderer, rq[2])>> :
                  ij \in { pair \in PortalIds \X PortalIds :
                              pair[1] # pair[2] },
                  rq \in { pair \in ReportLists \X ReportLists :
                              Len(pair[1]) + Len(pair[2]) <= MaxReports } }

\* get_orders(orderer): the entries are kept as returned
GetOrders(orderer, entries) ==
    /\ portal.stage = "new"
    /\ portal' = [portal EXCEPT !.stage = "fetched", !.orderer = orderer,
                                !.all_orders = entries]
    /\ UNCHANGED <<dataVars, handler, report, made>>

\* the records the data master reports as modified or new
ChangedRecords ==
    { get_modified_or_new_projects[p] : p \in ModifiedOrNewPaths }

MatchesChanged(order) ==
    \E rec \in ChangedRecords : rec.project_id = order.identifier

MatchingRecord(order) ==
    CHOOSE rec \in ChangedRecords : rec.project_id = order.identifier

\* ambiguity is never detected
Ambiguous_Never(order) == FALSE

\* more than one report request of the order with the same status label
Ambiguous(order) ==
    \E i, j \in DOMAIN order.reports :
        i # j /\ order.reports[i].label = order.reports[j].label

IsOpen(request) == request.state = "open"

\* every closed request counts, whenever it was closed
InRemovalWindow_AnyClosed(request) == request.state = "closed"

InRemovalWindow(request) == request.state = "closed" /\ request.in_window

OpenLabels(order) ==
    { order.reports[i].label : i \in { k \in DOMAIN order.reports :
                                          IsOpen(order.reports[k]) } }

RemovalLabels(order) ==
    { order.reports[i].label : i \in { k \in DOMAIN order.reports :
                                          InRemovalWindow(order.reports[k]) } }

Rank(label, priority_ranking) ==
    CHOOSE i \in DOMAIN priority_ranking : priority_ranking[i] = label

\* the highest-ranked of the applicable labels
HighestRanked(labels, priority_ranking) ==
    CHOOSE l \in labels :
        \A m \in labels : Rank(l, priority_ranking) <= Rank(m, priority_ranking)

\* the label of the bucket the order's project goes to, if any
ProjectsLabel(order, priority_ranking) ==
    IF OpenLabels(order) = {} THEN <<>>
    ELSE <<HighestRanked(OpenLabels(order), priority_ranking)>>

DeleteLabel(order, priority_ranking) ==
    IF RemovalLabels(order) = {} THEN <<>>
    ELSE <<HighestRanked(RemovalLabels(order), priority_ranking)>>

\* the records of one bucket, in the order of the orders
RECURSIVE Bucket(_, _, _, _)
Bucket(orders, priority_ranking, label, delete) ==
    IF orders = <<>> THEN <<>>
    ELSE LET order == Head(orders)
             chosen == IF delete THEN DeleteLabel(order, priority_ranking)
                       ELSE ProjectsLabel(order, priority_ranking)
             rest == Bucket(Tail(orders), priority_ranking, label, delete)
         IN  IF MatchesChanged(order) /\ chosen = <<label>>
             THEN <<MatchingRecord(order)>> \o rest
             ELSE rest

Classification(orders, priority_ranking) ==
    [ o \in { orders[i].orderer : i \in { k \in DOMAIN orders :
                                             MatchesChanged(orders[k]) } } |->
        [ projects |->
              [ l \in StatusLabels |->
                    Bucket(orders, priority_ranking, l, FALSE) ],
          delete_report_for |->
              [ l \in StatusLabels |->
                    Bucket(orders, priority_ranking, l, TRUE) ] ] ]

AmbiguousOrders(orders) == { i \in DOMAIN orders : Ambiguous(orders[i]) }

\* process_orders(priority_ranking)
ProcessOrders(priority_ranking) ==
    /\ portal.stage = "fetched"
    /\ portal' =
          IF AmbiguousOrders(portal.all_orders) # {}
          THEN LET first == CHOOSE i \in AmbiguousOrders(portal.all_orders) :
                               \A j \in AmbiguousOrders(portal.all_orders) :
                                   i <= j
               IN  [portal EXCEPT
                       !.stage = "processed",
                       !.priority_ranking = priority_ranking,
                       !.raised = "ValueError",
                       !.named = <<portal.all_orders[first].identifier>>]
          ELSE [portal EXCEPT
                   !.stage = "processed",
                   !.priority_ranking = priority_ranking,
                   !.result = <<Classification(portal.all_orders,
                                               priority_ranking)>>]
    /\ UNCHANGED <<dataVars, handler, report, made>>

NextOrders ==
    \/ \E orderer \in Orderers :
          \E entries \in OrderLists(orderer) : GetOrders(orderer, entries)
    \/ \E priority_ranking \in PriorityRankings :
          ProcessOrders(priority_ranking)

SpecOrders == InitIdle /\ [][NextOrders]_vars

-----------------------------------------------------------------------------
(* ProjectDataRecord(relative_path, data) on its own *)

RecordPaths ==
    { <<<<n>>, <<y>>, f>> :
          n \in {"NGIS", "SNPSEQ", "UGC"}, y \in {"2022", "2023"},
          f \in {<<"P1", "json">>, <<"P2", "json">>, <<"P1", "v2", "json">>} }
        \cup { RootP1Path, PlaceholderPath }

\* a dict without keys, and one with more keys than the two used so far
EmptyDict == [k \in {} |-> ""]
FullRow ==
    [portal_id |-> <<"P1">>, orderer |-> "a@x.se", status |-> "Ongoing"]

RecordData ==
    {None} \cup { <<d>> : d \in Payloads } \cup { <<EmptyDict>>, <<FullRow>> }

MakeRecord(relative_path, data) ==
    /\ made' = [ called |-> TRUE, relative_path |-> relative_path,
                 data |-> data,
                 raised |-> IF RecordInitRaises(data) THEN "ValueError"
                            ELSE NoError,
                 result |-> IF RecordInitRaises(data) THEN <<>>
                            ELSE <<ProjectDataRecord(relative_path, data)>> ]
    /\ UNCHANGED <<dataVars, handler, report, portal>>

NextRecord ==
    \E relative_path \in RecordPaths, data \in RecordData :
        MakeRecord(relative_path, data)

SpecRecord == InitIdle /\ [][NextRecord]_vars

-----------------------------------------------------------------------------
(* Properties *)

PendingPaths == staged_files \cup modified_not_staged_files \cup untracked_files

\* C1: in a bootstrapped store without pending changes, after get_data has
\* loaded N new records and save_data has written them,
\* get_modified_or_new_projects() holds exactly N records, all of untracked
\* files; after stage_data_for_project for each of them and
\* commit_staged_data it holds none.
C1_WriteThenCommit ==
    /\ (runStage = "saved" /\ freshSave /\ last.op = "save_data") =>
          /\ Cardinality(DOMAIN get_modified_or_new_projects)
                = Cardinality(DOMAIN master.data)
          /\ DOMAIN get_modified_or_new_projects \subseteq untracked_files
    /\ (runStage = "committed" /\ freshSave) =>
          DOMAIN get_modified_or_new_projects = {}

\* C2: a complete run (get_data, save_data, every changed record staged,
\* commit) followed by get_data with the same records and save_data leaves
\* nothing modified or new.
C2_SecondRunNoChanges ==
    runStage = "resaved" =>
        ~any_modified_or_new /\ DOMAIN get_modified_or_new_projects = {}

\* C3: constructing the data master over an empty or missing directory
\* leaves a history of exactly one commit, no staged, unstaged or untracked
\* path, and any_modified_or_new() false.
C3_FreshBootstrap ==
    [][ ( /\ last'.op = "init" /\ last'.err = NoError
          /\ location \in {"missing", "dir"}
          /\ wt = EmptyTree /\ index = EmptyTree /\ commitLog = <<>> )
        => ( /\ Len(commitLog') = 1
             /\ staged_files' = {}
             /\ modified_not_staged_files' = {}
             /\ untracked_files' = {}
             /\ ~any_modified_or_new' ) ]_vars

C3_Witness ==
    /\ last.op = "init" /\ last.err = NoError
    /\ commitLog = <<FirstCommitMessage>>
    /\ wt = Bootstrapped
    /\ ~any_modified_or_new

\* C4: initialising the store on a directory without commits fails with
\* the "no commits but has modifications" error, creating neither the
\* placeholder nor a commit, when the directory has an uncommitted change or
\* an untracked file; otherwise it creates the placeholder and commits it.
C4_NoCommitInit ==
    [][ ( /\ last'.op = "init"
          /\ last'.err \notin { "ConnectionError",
                                "ValueError: not an absolute path",
                                "ValueError: not a directory" }
          /\ commitLog = <<>> )
        => IF IsDirty(wt, index, head) \/ UntrackedFiles(index, wt) # {}
           THEN /\ last'.err = "ValueError: no commits but has modifications"
                /\ ~master'.alive
                /\ wt' = wt /\ index' = index /\ head' = head
                /\ commitLog' = <<>>
           ELSE /\ last'.err = NoError
                /\ PlaceholderPath \in DOMAIN wt'
                /\ PlaceholderPath \in DOMAIN head'
                /\ head'[PlaceholderPath] = wt'[PlaceholderPath]
                /\ commitLog' = <<FirstCommitMessage>> ]_vars

C4_Witness ==
    /\ last.op = "init"
    /\ last.err = "ValueError: no commits but has modifications"
    /\ commitLog = <<>>
    /\ UntrackedFiles(index, wt) # {}
    /\ PlaceholderPath \notin DOMAIN wt

\* C5: save_data() on a data master whose fetched flag is not set raises
\* AssertionError, writes no file and leaves the saved flag alone; files are
\* written by save_data only with the fetched flag set, and the flag is set
\* only by a get_data() that completed.
C5_FetchBeforeSave ==
    [][ /\ (last'.op = "save_data" /\ ~master.data_fetched) =>
              /\ last'.err = "AssertionError"
              /\ wt' = wt
              /\ master'.data_saved = master.data_saved
        /\ (last'.op = "save_data" /\ (wt' # wt \/ last'.err = NoError)) =>
              master.data_fetched
        /\ (master'.data_fetched /\ ~master.data_fetched) =>
              (last'.op = "get_data" /\ last'.err = NoError) ]_vars

C5_Witness ==
    /\ last.op = "save_data" /\ last.err = "AssertionError"
    /\ master.data # EmptyData
    /\ ~master.data_saved

IsPrefix(s, t) == Len(s) <= Len(t) /\ s = SubSeq(t, 1, Len(s))

\* C6: get_data() invokes the enabled adapters one after another in their
\* configured order; when one fails the exception is raised at once: the
\* failing adapter is the last one invoked and the call does not set the
\* fetched flag.
C6_FailFast ==
    [][ last'.op = "get_data" =>
          /\ IsPrefix(last'.invoked, Sources(config))
          /\ last'.err = NoError =>
                (last'.invoked = Sources(config) /\ last'.failed = NoneStr)
          /\ last'.err # NoError =>
                /\ last'.invoked # <<>>
                /\ last'.failed = last'.invoked[Len(last'.invoked)]
                /\ master'.data_fetched = master.data_fetched ]_vars

C6_Witness ==
    /\ last.op = "get_data" /\ last.err # NoError
    /\ Len(last.invoked) < Len(master.sources)
    /\ ~master.data_fetched

\* C7: a get_data() call that failed leaves in the merged mapping no record
\* contributed in that call by an adapter that succeeded before the failing
\* one.
C7_NoPartialAggregation ==
    [][ (last'.op = "get_data" /\ last'.err # NoError) =>
            master'.data = master.data ]_vars

\* C8: with the SNPSEQ or UGC adapter enabled, a get_data() in which the
\* Stockholm fetch does not fail completes, sets the fetched flag, and the
\* stub contributes no record.
C8_StubsReturnEmpty ==
    ( /\ last.op = "get_data"
      /\ \E i \in DOMAIN master.sources : master.sources[i] \in {SNPSEQ, UGC}
      /\ last.failed # Stockholm )
    => ( /\ last.err = NoError
         /\ master.data_fetched
         /\ \A k \in DOMAIN master.data :
               master.data[k].ngi_node = <<<<Dirname(Stockholm)>>>> )

\* the file name of a path without what follows its last dot; a dot that
\* only dots precede does not count
FilenameStem(path) ==
    LET name == path[Len(path)]
        n == Len(name)
    IN  IF n = 1 \/ (\A i \in 1..(n - 1) : name[i] = "") THEN name
        ELSE [i \in 1..(n - 1) |-> name[i]]

\* C9: get_modified_or_new_projects() holds one record for each staged,
\* unstaged or untracked path: the record in memory when the path's
\* filename stem is a key of the loaded data, otherwise a record of the path
\* alone, without payload and orderer.
C9_ResolvedRecords ==
    master.alive =>
        /\ DOMAIN get_modified_or_new_projects = PendingPaths
        /\ \A p \in PendingPaths :
              IF FilenameStem(p) \in DOMAIN master.data
              THEN get_modified_or_new_projects[p] = master.data[FilenameStem(p)]
              ELSE /\ get_modified_or_new_projects[p].relative_path = p
                   /\ get_modified_or_new_projects[p].data = None
                   /\ get_modified_or_new_projects[p].orderer = NoneStr

C9_Witness ==
    /\ master.alive
    /\ staged_files # {} /\ modified_not_staged_files # {}
    /\ untracked_files # {}
    /\ \E p \in PendingPaths : FilenameStem(p) \in DOMAIN master.data
    /\ \E p \in PendingPaths : FilenameStem(p) \notin DOMAIN master.data

\* C10: any_modified_or_new() is true exactly when a staged, unstaged or
\* untracked path exists, which is when get_modified_or_new_projects() is
\* not empty.
C10_AnyIffPending ==
    master.alive =>
        /\ any_modified_or_new <=> (PendingPaths # {})
        /\ any_modified_or_new <=> (DOMAIN get_modified_or_new_projects # {})

C10_Witness ==
    /\ master.alive
    /\ any_modified_or_new
    /\ staged_files = {} /\ modified_not_staged_files = {}
    /\ untracked_files # {}

\* C11: commit_staged_data(message) with nothing staged creates no commit
\* and reports a failure; with something staged it creates one commit with
\* the message and empties the staged set.
C11_CommitFailsWhenNothingStaged ==
    [][ last'.op = "commit_staged_data" =>
          IF staged_files = {}
          THEN commitLog' = commitLog /\ last'.err # NoError
          ELSE /\ Len(commitLog') = Len(commitLog) + 1
               /\ staged_files' = {} ]_vars

\* C11, as the code has it: commit_staged_data(message) always creates
\* exactly one commit, with the given message and the index as its tree,
\* and leaves nothing staged; with nothing staged the commit has the tree of
\* its parent.
C11_CommitAlways ==
    [][ last'.op = "commit_staged_data" =>
          /\ last'.err = NoError
          /\ \E m \in Messages : commitLog' = Append(commitLog, m)
          /\ head' = index /\ index' = index /\ wt' = wt
          /\ staged_files' = {}
          /\ staged_files = {} => head' = head ]_vars

C11_Witness ==
    /\ last.op = "commit_staged_data" /\ last.err = NoError
    /\ Len(commitLog) >= 2
    /\ head = Bootstrapped

CanonicalPaths == { master.data[k].relative_path : k \in DOMAIN master.data }

\* C12: save_data() after get_data() on a store with staged, unstaged or
\* untracked changes writes every record in memory to its path and sets
\* the saved flag; it changes neither the index nor the history, removes no
\* file and leaves every file other than the records' own alone.
C12_SaveOverPending ==
    [][ (last'.op = "save_data" /\ master.data_fetched /\ PendingPaths # {}) =>
          /\ last'.err = NoError
          /\ master'.data_saved
          /\ \A k \in DOMAIN master.data :
                /\ master.data[k].relative_path \in DOMAIN wt'
                /\ wt'[master.data[k].relative_path]
                      = JsonDumps(master.data[k].data)
          /\ index' = index /\ head' = head /\ commitLog' = commitLog
          /\ \A p \in DOMAIN wt :
                /\ p \in DOMAIN wt'
                /\ p \notin CanonicalPaths => wt'[p] = wt[p]
          /\ \A p \in PendingPaths \ CanonicalPaths : p \in PendingPaths' ]_vars

C12_Witness ==
    /\ last.op = "save_data" /\ last.err = NoError
    /\ master.data_saved
    /\ master.data # EmptyData
    /\ staged_files # {} /\ modified_not_staged_files # {}

\* the enumerations of a finite set: the orders in which a loop may visit it
Enumerations(S) ==
    { e \in [1..Cardinality(S) -> S] : \A i, j \in DOMAIN e : i # j => e[i] # e[j] }

\* C16: find_unique_orderers() is the set of the orderers of the records of
\* get_modified_or_new_projects(): nothing else, nothing missing, whatever
\* the order in which the changed paths are visited.
C16_UniqueOrderers ==
    master.alive =>
        \A e \in Enumerations(ModifiedOrNewPaths) :
            LET projects_list == [i \in DOMAIN e |-> get_modified_or_new_projects[e[i]]]
                result == OrderersLoop(projects_list, {})
            IN  /\ \A o \in result :
                      \E p \in PendingPaths : ResolveProject(p).orderer = o
                /\ \A p \in PendingPaths : ResolveProject(p).orderer \in result
                /\ result = find_unique_orderers

C16_Witness ==
    /\ master.alive
    /\ Cardinality(ModifiedOrNewPaths) >= 3
    /\ Cardinality(find_unique_orderers) >= 2
    /\ NoneStr \in find_unique_orderers
    /\ \E p, q \in ModifiedOrNewPaths :
          p # q /\ ResolveProject(p).orderer = ResolveProject(q).orderer

\* C18: initialising the store on a directory whose history has a commit
\* succeeds, pending changes or not, creates no commit and no file and
\* leaves index, HEAD and working tree as they were; a constructed data
\* master always has a history of at least one commit.
C18_InitKeepsHistory ==
    [][ /\ ( /\ last'.op = "init"
             /\ last'.err \notin { "ConnectionError",
                                   "ValueError: not an absolute path",
                                   "ValueError: not a directory" }
             /\ commitLog # <<>> )
           => /\ last'.err = NoError
              /\ master'.alive
              /\ commitLog' = commitLog
              /\ wt' = wt /\ index' = index /\ head' = head
              /\ staged_files' = staged_files
              /\ modified_not_staged_files' = modified_not_staged_files
              /\ untracked_files' = untracked_files
        /\ master'.alive => Len(commitLog') >= 1 ]_vars

C18_Witness ==
    /\ last.op = "init" /\ last.err = NoError
    /\ Len(commitLog) = 2
    /\ staged_files # {} /\ modified_not_staged_files # {}
    /\ untracked_files # {}
    /\ PlaceholderPath \notin untracked_files

\* C19: every record of get_modified_or_new_projects() has a relative_path
\* that is staged, unstaged or untracked, and two different pending paths
\* never give the same record.
C19_RecordsArePending ==
    master.alive =>
        /\ \A p \in ModifiedOrNewPaths :
              get_modified_or_new_projects[p].relative_path \in PendingPaths
        /\ \A p, q \in ModifiedOrNewPaths :
              p # q => get_modified_or_new_projects[p]
                          # get_modified_or_new_projects[q]

\* C15: error_reporting raises one RuntimeError summary exactly when the
\* handler has recorded an event of level ERROR or above since its list
\* was last emptied; the summary lists the recorded messages in the order
\* they were emitted; without such an event it raises nothing.
C15_ErrorSummary ==
    report.called =>
        /\ (report.raised = "RuntimeError") <=> (handler # <<>>)
        /\ handler = <<>> => report.raised = NoError
        /\ handler # <<>> =>
              /\ Len(report.summary) = Len(handler) + 1
              /\ \A i \in DOMAIN handler :
                    report.summary[i + 1] = handler[i].text

\* C17: ProjectDataRecord with a payload without orderer key raises the
\* "Orderer missing" error; with a payload that has the key it succeeds,
\* takes the orderer from it and keeps the payload; from a path alone it
\* succeeds with payload and orderer None.
C17_RecordConstruction ==
    made.called =>
        IF made.data = None
        THEN /\ made.raised = NoError
             /\ made.result[1].data = None
             /\ made.result[1].orderer = NoneStr
             /\ made.result[1].relative_path = made.relative_path
        ELSE IF "orderer" \in DOMAIN made.data[1]
             THEN /\ made.raised = NoError
                  /\ made.result[1].orderer = made.data[1].orderer
                  /\ made.result[1].data = made.data
             ELSE /\ made.raised = "ValueError"
                  /\ made.result = <<>>

C17_Witness ==
    /\ made.called
    /\ made.data # None
    /\ "orderer" \notin DOMAIN made.data[1]
    /\ made.raised = "ValueError"

SameLabelTwice(order) ==
    \E i \in DOMAIN order.reports : \E j \in DOMAIN order.reports :
        i < j /\ order.reports[i].label = order.reports[j].label

Occurs(x, seq) == \E i \in DOMAIN seq : seq[i] = x

\* l is ranked at least as high as every label of labels
TopOf(l, labels, ranking) ==
    /\ l \in labels
    /\ \A m \in labels :
          \A i, j \in DOMAIN ranking :
              ranking[i] = l /\ ranking[j] = m => i <= j

====
